---- MODULE Spec2Model ----
(***************************************************************************)
(* The Oracle mutation writer of gravity-transmitter-oracle               *)
(* (pkg/database/writer/writer.go).                                        *)
(*                                                                         *)
(* Records are compiled into DBCommands (SQL template + named arguments), *)
(* queued on the writer's channel, grouped into chunks by the buffered    *)
(* input, merged per run of identical templates and executed with         *)
(* unbounded retry; the completion handler is called per command.         *)
(*                                                                         *)
(* SQL text is modelled as TLA+ strings, so the text surgery of the merge *)
(* code (strings.Replace, strings.Index, fmt.Sprintf) is modelled on the  *)
(* text, and the database is modelled as an interpreter of that text.     *)
(***************************************************************************)
EXTENDS Integers, Sequences, FiniteSets, TLC

(***************************************************************************)
(* Bounds of the model.                                                    *)
(***************************************************************************)
\* number of ProcessData calls in one behaviour
MaxSubmit == 3
\* opts.ChunkSize of the buffered input (100 in NewWriter), scaled down
ChunkSize == 2
\* number of failing database executions in one behaviour
MaxFail == 1
\* config.max_batch_size of the batched-transaction variant, scaled down
BatchSize == 2
\* longest payload of the values given to GetValue that is shorter than the
\* 8 bytes of a number
MaxShort == 2

(***************************************************************************)
(* Strings (Go's strings package, on TLA+ strings).                        *)
(***************************************************************************)
Min(a, b) == IF a < b THEN a ELSE b

\* s[i:] of Go, 1-based: the suffix of s starting at character i
From(s, i) == SubSeq(s, i, Len(s))

HasPrefix(s, p) == Len(p) <= Len(s) /\ SubSeq(s, 1, Len(p)) = p

HasSuffix(s, p) == Len(p) <= Len(s) /\ SubSeq(s, Len(s) - Len(p) + 1, Len(s)) = p

RECURSIVE IndexFrom(_, _, _)
\* the least position >= i at which sub occurs in s, 0 when there is none
IndexFrom(s, sub, i) ==
    IF i + Len(sub) - 1 > Len(s) THEN 0
    ELSE IF SubSeq(s, i, i + Len(sub) - 1) = sub THEN i
    ELSE IndexFrom(s, sub, i + 1)

\* strings.Index, 1-based, 0 for Go's -1
Index(s, sub) == IndexFrom(s, sub, 1)

\* strings.Replace(s, old, new, 1): the first occurrence only
Replace1(s, old, new) ==
    LET i == Index(s, old)
    IN  IF i = 0 THEN s
        ELSE SubSeq(s, 1, i - 1) \o new \o From(s, i + Len(old))

\* the number of positions of s at which sub occurs
Count(s, sub) ==
    Cardinality({i \in 1..(Len(s) - Len(sub) + 1) : SubSeq(s, i, i + Len(sub) - 1) = sub})

RECURSIVE Join(_, _)
\* strings.Join
Join(elems, sep) ==
    IF Len(elems) = 0 THEN ""
    ELSE IF Len(elems) = 1 THEN elems[1]
    ELSE elems[1] \o sep \o Join(Tail(elems), sep)

\* strconv.Itoa on the field indexes that occur
Itoa(n) ==
    CASE n = 0 -> "0" [] n = 1 -> "1" [] n = 2 -> "2" [] n = 3 -> "3"
      [] n = 4 -> "4" [] n = 5 -> "5" [] n = 6 -> "6" [] n = 7 -> "7"
      [] n = 8 -> "8" [] n = 9 -> "9"

RECURSIVE Flatten(_)
\* the concatenation of a sequence of sequences
Flatten(ss) == IF Len(ss) = 0 THEN <<>> ELSE Head(ss) \o Flatten(Tail(ss))

Range(f) == {f[i] : i \in DOMAIN f}

(***************************************************************************)
(* Templates.                                                              *)
(***************************************************************************)
\* fmt.Sprintf(UpdateTemplate, table, sets, key)
UpdateTemplate(table, sets, key) ==
    "UPDATE " \o table \o " SET " \o sets \o " WHERE " \o key \o " = :primary_val"

\* fmt.Sprintf(InsertTemplate, table, cols, vals)
InsertTemplate(table, cols, vals) ==
    "INSERT INTO " \o table \o " (" \o cols \o ") VALUES (" \o vals \o ")"

\* fmt.Sprintf(DeleteTemplate, table, key)
DeleteTemplate(table, key) ==
    "DELETE FROM " \o table \o " WHERE " \o key \o " = :primary_val"

(***************************************************************************)
(* Records and their values.                                               *)
(***************************************************************************)
\* a little-endian payload of 8 bytes holding the small number n
LE64(n) == <<n, 0, 0, 0, 0, 0, 0, 0>>

RECURSIVE Uint64(_)
\* binary.LittleEndian.Uint64 on a payload of 8 bytes
Uint64(b) == IF Len(b) = 0 THEN 0 ELSE b[1] + 256 * Uint64(Tail(b))

\* the character of a byte, for the bytes the records use
Chr(b) == CASE b = 97 -> "a" [] b = 98 -> "b" [] b = 99 -> "c" [] OTHER -> "?"

RECURSIVE BytesToString(_)
\* string(value.Value)
BytesToString(b) == IF Len(b) = 0 THEN "" ELSE Chr(b[1]) \o BytesToString(Tail(b))

\* a Go run-time panic: the call does not return
Panic(msg) == [panic |-> msg]

\* GetValue: the native scalar of a tagged payload, tagged by its Go type.
\* binary.LittleEndian.Uint64 reads b[7] and value.Value[0] reads the first
\* byte: on a shorter payload the index is out of range and the call panics
GetValue(value) ==
    CASE value.Type = "FLOAT64" ->
             IF Len(value.Value) < 8 THEN Panic("index out of range")
             ELSE [float64bits |-> Uint64(SubSeq(value.Value, 1, 8))]
      [] value.Type = "INT64" ->
             IF Len(value.Value) < 8 THEN Panic("index out of range")
             ELSE [int64 |-> Uint64(SubSeq(value.Value, 1, 8))]
      [] value.Type = "UINT64" ->
             IF Len(value.Value) < 8 THEN Panic("index out of range")
             ELSE [uint64 |-> Uint64(SubSeq(value.Value, 1, 8))]
      [] value.Type = "BOOLEAN" ->
             IF Len(value.Value) < 1 THEN Panic("index out of range")
             ELSE [int8 |-> value.Value[1] % 2]
      [] value.Type = "STRING" -> [string |-> BytesToString(value.Value)]
      [] OTHER -> [bytes |-> value.Value]

IntValue(n) == [Type |-> "INT64", Value |-> LE64(n)]
StringValue(b) == [Type |-> "STRING", Value |-> <<b>>]
Field(name, value) == [Name |-> name, Value |-> value]

Rec(method, table, pk, fields) ==
    [Method |-> method, Table |-> table, PrimaryKey |-> pk, Fields |-> fields]

(***************************************************************************)
(* Compilation: GetDefinition, insert, update, DeleteRecord.               *)
(***************************************************************************)
EmptyMap == [k \in {} |-> 0]
Put(m, k, v) == [x \in (DOMAIN m) \cup {k} |-> IF x = k THEN v ELSE m[x]]

RECURSIVE ScanFields(_, _, _)
\* the loop of GetDefinition over record.Fields, from 0-based index n on
ScanFields(record, n, def) ==
    IF n >= Len(record.Fields) THEN def
    ELSE LET field == record.Fields[n + 1]
             value == GetValue(field.Value)
         IN  IF record.PrimaryKey = field.Name
             THEN ScanFields(record, n + 1,
                      [def EXCEPT !.Values = Put(@, "primary_val", value),
                                  !.HasPrimary = TRUE,
                                  !.PrimaryColumn = field.Name])
             ELSE LET bindingName == "val_" \o Itoa(n)
                  IN  ScanFields(record, n + 1,
                          [def EXCEPT !.Values = Put(@, bindingName, value),
                                      !.ColumnDefs = Append(@,
                                          [ColumnName  |-> field.Name,
                                           Value       |-> field.Name,
                                           BindingName |-> bindingName])])

\* the missing-primary-key error of GetDefinition
ErrNotFoundPrimaryKey == "Not found primary key"

\* GetDefinition: <<recordDef, err>>, err = "" for nil
GetDefinition(record) ==
    LET recordDef == ScanFields(record, 0,
                        [HasPrimary |-> FALSE, PrimaryColumn |-> "",
                         Values |-> EmptyMap, ColumnDefs |-> <<>>])
    IN  IF Len(record.PrimaryKey) > 0 /\ ~recordDef.HasPrimary
        THEN [def |-> recordDef, err |-> ErrNotFoundPrimaryKey]
        ELSE [def |-> recordDef, err |-> ""]

DBCommand(reference, record, queryStr, args) ==
    [Reference |-> reference, Record |-> record, QueryStr |-> queryStr, Args |-> args]

\* a plausible slip: the bindings of insert are numbered by a counter that
\* runs on from one call to the next, not by the index of the field
insertCounting(reference, record, table, recordDef) ==
    LET pkCols == IF recordDef.HasPrimary
                  THEN <<"\"" \o recordDef.PrimaryColumn \o "\"">> ELSE <<>>
        pkVals == IF recordDef.HasPrimary THEN <<":primary_val">> ELSE <<>>
        colNames == pkCols \o [i \in 1..Len(recordDef.ColumnDefs) |->
                                 "\"" \o recordDef.ColumnDefs[i].ColumnName \o "\""]
        valNames == pkVals \o [i \in 1..Len(recordDef.ColumnDefs) |->
                                 ":val_" \o Itoa(reference + i)]
        insertStr == InsertTemplate(table, Join(colNames, ","), Join(valNames, ","))
    IN  DBCommand(reference, record, insertStr, recordDef.Values)

\* insert: the command it sends on writer.commands
insert(reference, record, table, recordDef) ==
    LET pkCols == IF recordDef.HasPrimary
                  THEN <<"\"" \o recordDef.PrimaryColumn \o "\"">> ELSE <<>>
        pkVals == IF recordDef.HasPrimary THEN <<":primary_val">> ELSE <<>>
        colNames == pkCols \o [i \in 1..Len(recordDef.ColumnDefs) |->
                                 "\"" \o recordDef.ColumnDefs[i].ColumnName \o "\""]
        valNames == pkVals \o [i \in 1..Len(recordDef.ColumnDefs) |->
                                 ":" \o recordDef.ColumnDefs[i].BindingName]
        insertStr == InsertTemplate(table, Join(colNames, ","), Join(valNames, ","))
    IN  DBCommand(reference, record, insertStr, recordDef.Values)

\* update: the command it sends on writer.commands
update(reference, record, table, recordDef) ==
    LET updates == [i \in 1..Len(recordDef.ColumnDefs) |->
                      "\"" \o recordDef.ColumnDefs[i].ColumnName \o "\" = :"
                           \o recordDef.ColumnDefs[i].BindingName]
        sqlStr == UpdateTemplate(table, Join(updates, ","), recordDef.PrimaryColumn)
    IN  DBCommand(reference, record, sqlStr, recordDef.Values)

\* InsertRecord: the commands enqueued and the error returned
InsertRecord(reference, record) ==
    LET d == GetDefinition(record)
    IN  IF d.err # "" THEN [cmds |-> <<>>, err |-> d.err]
        ELSE [cmds |-> <<insert(reference, record, record.Table, d.def)>>, err |-> ""]

\* a plausible slip: UpdateRecord without the check of HasPrimary
UpdateRecordUnguarded(reference, record) ==
    LET d == GetDefinition(record)
    IN  IF d.err # "" THEN [cmds |-> <<>>, err |-> d.err]
        ELSE [cmds |-> <<update(reference, record, record.Table, d.def)>>, err |-> ""]

\* UpdateRecord: the commands enqueued and the error returned
UpdateRecord(reference, record) ==
    LET d == GetDefinition(record)
    IN  IF d.err # "" THEN [cmds |-> <<>>, err |-> d.err]
        ELSE IF d.def.HasPrimary = FALSE THEN [cmds |-> <<>>, err |-> ""]
        ELSE [cmds |-> <<update(reference, record, record.Table, d.def)>>, err |-> ""]

\* a plausible slip: DeleteRecord takes the first field for the key when the
\* record declares none
DeleteRecordFirstField(reference, record) ==
    LET hits == {i \in 1..Len(record.Fields) :
                    record.PrimaryKey = "" \/ record.PrimaryKey = record.Fields[i].Name}
    IN  IF hits = {} THEN [cmds |-> <<>>, err |-> ""]
        ELSE LET field == record.Fields[CHOOSE i \in hits : \A j \in hits : i <= j]
             IN  [cmds |-> <<DBCommand(reference, record,
                                DeleteTemplate(record.Table, field.Name),
                                Put(EmptyMap, "primary_val", GetValue(field.Value)))>>,
                  err |-> ""]

\* a plausible slip: the loop of DeleteRecord has no break, so a command is
\* sent for every field that carries the name of the key
DeleteRecordNoBreak(reference, record) ==
    IF record.PrimaryKey = "" THEN [cmds |-> <<>>, err |-> ""]
    ELSE LET hit(i) == record.PrimaryKey = record.Fields[i].Name
             cmd(i) == DBCommand(reference, record,
                           DeleteTemplate(record.Table, record.Fields[i].Name),
                           Put(EmptyMap, "primary_val",
                               GetValue(record.Fields[i].Value)))
         IN  [cmds |-> Flatten([i \in 1..Len(record.Fields) |->
                                  IF hit(i) THEN <<cmd(i)>> ELSE <<>>]),
              err |-> ""]

\* DeleteRecord: the commands enqueued and the error returned
DeleteRecord(reference, record) ==
    IF record.PrimaryKey = "" THEN [cmds |-> <<>>, err |-> ""]
    ELSE LET hits == {i \in 1..Len(record.Fields) :
                         record.PrimaryKey = record.Fields[i].Name}
         IN  IF hits = {} THEN [cmds |-> <<>>, err |-> ""]
             ELSE LET field == record.Fields[CHOOSE i \in hits : \A j \in hits : i <= j]
                  IN  [cmds |-> <<DBCommand(reference, record,
                                     DeleteTemplate(record.Table, field.Name),
                                     Put(EmptyMap, "primary_val", GetValue(field.Value)))>>,
                       err |-> ""]

\* ProcessData: the dispatch on record.Method
ProcessDataResult(reference, record) ==
    CASE record.Method = "DELETE" -> DeleteRecord(reference, record)
      [] record.Method = "UPDATE" -> UpdateRecord(reference, record)
      [] record.Method = "INSERT" -> InsertRecord(reference, record)
      [] OTHER -> [cmds |-> <<>>, err |-> ""]

(***************************************************************************)
(* sqlx: BindNamed for the oci8 driver (bind type NAMED).                  *)
(***************************************************************************)
Letters == "abcdefghijklmnopqrstuvwxyzABCDEFGHIJKLMNOPQRSTUVWXYZ0123456789_"
IdentChars == {SubSeq(Letters, i, i) : i \in 1..Len(Letters)}

RECURSIVE WordEnd(_, _)
\* the position after the run of identifier characters that starts at i
WordEnd(s, i) ==
    IF i > Len(s) \/ SubSeq(s, i, i) \notin IdentChars THEN i ELSE WordEnd(s, i + 1)

RECURSIVE NamedParams(_, _)
\* the names of the :name parameters of a query from position i on, in order
NamedParams(s, i) ==
    LET c == IndexFrom(s, ":", i)
    IN  IF c = 0 THEN <<>>
        ELSE LET e == WordEnd(s, c + 1)
             IN  IF e = c + 1 THEN NamedParams(s, c + 1)
                 ELSE <<SubSeq(s, c + 1, e - 1)>> \o NamedParams(s, e)

RECURSIVE BindMapArgs(_, _)
\* the values of the names, in order, up to the first name the map lacks
BindMapArgs(names, args) ==
    IF Len(names) = 0 \/ Head(names) \notin DOMAIN args THEN <<>>
    ELSE <<args[Head(names)]>> \o BindMapArgs(Tail(names), args)

\* writer.db.BindNamed(query, args): the bound query and the positional arguments
BindNamed(query, args) ==
    [qStr |-> query, arg |-> BindMapArgs(NamedParams(query, 1), args)]

(***************************************************************************)
(* The database: one table of rows, and an interpreter of statement text. *)
(***************************************************************************)
Tables == {"CUSTOMER"}
Columns == {"ID", "NAME"}
Null == [null |-> TRUE]

RECURSIVE LexFrom(_, _)
\* the tokens of a text from position i on: words, quoted identifiers,
\* :name placeholders and single punctuation characters
LexFrom(s, i) ==
    IF i > Len(s) THEN <<>>
    ELSE LET c == SubSeq(s, i, i)
         IN  IF c = " " THEN LexFrom(s, i + 1)
             ELSE IF c = "\"" THEN
                 LET q == IndexFrom(s, "\"", i + 1)
                 IN  IF q = 0 THEN <<From(s, i)>>
                     ELSE <<SubSeq(s, i, q)>> \o LexFrom(s, q + 1)
             ELSE IF c = ":" THEN
                 LET e == WordEnd(s, i + 1)
                 IN  <<SubSeq(s, i, e - 1)>> \o LexFrom(s, e)
             ELSE IF c \in IdentChars THEN
                 LET e == WordEnd(s, i)
                 IN  <<SubSeq(s, i, e - 1)>> \o LexFrom(s, e)
             ELSE <<c>> \o LexFrom(s, i + 1)

RECURSIVE Lex(_)
\* the tokens of a statement; a long text is cut at a blank first (the
\* identifiers of the model hold no blank), which keeps the recursion shallow
Lex(s) ==
    LET sp == IF Len(s) <= 24 THEN 0 ELSE IndexFrom(s, " ", Len(s) \div 2)
    IN  IF sp = 0 THEN LexFrom(s, 1)
        ELSE Lex(SubSeq(s, 1, sp - 1)) \o Lex(From(s, sp + 1))

IsPlaceholder(tok) == Len(tok) > 1 /\ SubSeq(tok, 1, 1) = ":"
IsWord(tok) == Len(tok) > 0 /\ SubSeq(tok, 1, 1) \in IdentChars
IsQuoted(tok) == Len(tok) > 2 /\ SubSeq(tok, 1, 1) = "\"" /\ SubSeq(tok, Len(tok), Len(tok)) = "\""
\* the column an identifier token names
ColumnOf(tok) == IF IsQuoted(tok) THEN SubSeq(tok, 2, Len(tok) - 1) ELSE tok
IsColumn(tok) == (IsQuoted(tok) \/ IsWord(tok)) /\ ColumnOf(tok) \in Columns

Tok(t, i) == IF i >= 1 /\ i <= Len(t) THEN t[i] ELSE ""

RECURSIVE ParseList(_, _, _)
\* a comma-separated list of tokens from position i up to a closing ")":
\* the items and the position after the ")", pos = 0 when malformed
ParseList(t, i, items) ==
    IF Tok(t, i) \in {"", ",", "(", ")", ";", "="} THEN [items |-> items, pos |-> 0]
    ELSE IF Tok(t, i + 1) = ")" THEN [items |-> Append(items, t[i]), pos |-> i + 2]
    ELSE IF Tok(t, i + 1) = "," THEN ParseList(t, i + 2, Append(items, t[i]))
    ELSE [items |-> items, pos |-> 0]

BadStmt == [ok |-> FALSE]

RECURSIVE ParseInto(_, _, _)
\* the INTO clauses of an insert from position i on; all is TRUE for
\* INSERT ALL ... SELECT * FROM DUAL, where one clause or more is needed
ParseInto(t, i, rows) ==
    IF Tok(t, i) = "INTO" /\ Tok(t, i + 1) \in Tables /\ Tok(t, i + 2) = "("
    THEN LET cols == ParseList(t, i + 3, <<>>)
         IN  IF cols.pos = 0 \/ Tok(t, cols.pos) # "VALUES" \/ Tok(t, cols.pos + 1) # "("
             THEN [rows |-> rows, pos |-> 0]
             ELSE LET vals == ParseList(t, cols.pos + 2, <<>>)
                  IN  IF \/ vals.pos = 0
                         \/ Len(vals.items) # Len(cols.items)
                         \/ \E k \in 1..Len(cols.items) :
                               ~IsColumn(cols.items[k]) \/ ~IsPlaceholder(vals.items[k])
                      THEN [rows |-> rows, pos |-> 0]
                      ELSE ParseInto(t, vals.pos,
                              Append(rows, [table |-> t[i + 1],
                                            cols  |-> [k \in 1..Len(cols.items) |->
                                                          ColumnOf(cols.items[k])]]))
    ELSE [rows |-> rows, pos |-> i]

\* INSERT INTO ... or INSERT ALL INTO ... INTO ... SELECT * FROM DUAL
ParseInsert(t) ==
    IF Tok(t, 2) = "ALL"
    THEN LET r == ParseInto(t, 3, <<>>)
         IN  IF /\ r.pos # 0 /\ Len(r.rows) >= 1
                /\ SubSeq(t, r.pos, Len(t)) = <<"SELECT", "*", "FROM", "DUAL">>
             THEN [ok |-> TRUE, kind |-> "insert", rows |-> r.rows,
                   nbinds |-> Len(Flatten([k \in 1..Len(r.rows) |-> r.rows[k].cols]))]
             ELSE BadStmt
    ELSE LET r == ParseInto(t, 2, <<>>)
         IN  IF r.pos = Len(t) + 1 /\ Len(r.rows) = 1
             THEN [ok |-> TRUE, kind |-> "insert", rows |-> r.rows,
                   nbinds |-> Len(r.rows[1].cols)]
             ELSE BadStmt

\* WHERE <column> = :x   or   WHERE <column> IN (:x, ..., :x), up to the end
ParseWhere(t, i) ==
    IF Tok(t, i) # "WHERE" \/ ~IsColumn(Tok(t, i + 1)) THEN [ok |-> FALSE]
    ELSE IF Tok(t, i + 2) = "=" /\ IsPlaceholder(Tok(t, i + 3)) /\ Len(t) = i + 3
         THEN [ok |-> TRUE, key |-> ColumnOf(t[i + 1]), nkeys |-> 1]
    ELSE IF Tok(t, i + 2) = "IN" /\ Tok(t, i + 3) = "("
         THEN LET keys == ParseList(t, i + 4, <<>>)
              IN  IF /\ keys.pos = Len(t) + 1
                     /\ \A k \in 1..Len(keys.items) : IsPlaceholder(keys.items[k])
                  THEN [ok |-> TRUE, key |-> ColumnOf(t[i + 1]), nkeys |-> Len(keys.items)]
                  ELSE [ok |-> FALSE]
    ELSE [ok |-> FALSE]

RECURSIVE ParseSets(_, _, _)
\* <column> = :x, ..., <column> = :x from position i on, up to WHERE
ParseSets(t, i, sets) ==
    IF IsColumn(Tok(t, i)) /\ Tok(t, i + 1) = "=" /\ IsPlaceholder(Tok(t, i + 2))
    THEN IF Tok(t, i + 3) = ","
         THEN ParseSets(t, i + 4, Append(sets, ColumnOf(t[i])))
         ELSE [sets |-> Append(sets, ColumnOf(t[i])), pos |-> i + 3]
    ELSE [sets |-> sets, pos |-> 0]

\* UPDATE <table> SET ... WHERE ...
ParseUpdate(t) ==
    IF Tok(t, 2) \in Tables /\ Tok(t, 3) = "SET"
    THEN LET s == ParseSets(t, 4, <<>>)
             w == IF s.pos = 0 THEN [ok |-> FALSE] ELSE ParseWhere(t, s.pos)
         IN  IF w.ok
             THEN [ok |-> TRUE, kind |-> "update", table |-> t[2], sets |-> s.sets,
                   key |-> w.key, nkeys |-> w.nkeys, nbinds |-> Len(s.sets) + w.nkeys]
             ELSE BadStmt
    ELSE BadStmt

\* DELETE FROM <table> WHERE ...
ParseDelete(t) ==
    IF Tok(t, 2) = "FROM" /\ Tok(t, 3) \in Tables
    THEN LET w == ParseWhere(t, 4)
         IN  IF w.ok
             THEN [ok |-> TRUE, kind |-> "delete", table |-> t[3],
                   key |-> w.key, nkeys |-> w.nkeys, nbinds |-> w.nkeys]
             ELSE BadStmt
    ELSE BadStmt

\* the statement a text denotes; one statement per execution
ParseStmt(queryStr) ==
    LET t == Lex(queryStr)
    IN  CASE Tok(t, 1) = "INSERT" -> ParseInsert(t)
          [] Tok(t, 1) = "UPDATE" -> ParseUpdate(t)
          [] Tok(t, 1) = "DELETE" -> ParseDelete(t)
          [] OTHER -> BadStmt


(***************************************************************************)
(* Merging: one attempt of processData builds the statement list and the  *)
(* argument list of a group of commands.                                   *)
(***************************************************************************)
\* querys[len(querys)-1] = q
SetLast(querys, q) == [querys EXCEPT ![Len(querys)] = q]

\* a plausible slip: appendInsertData merges the text and forgets the arguments
appendInsertDataTextOnly(tmp, cmd, querys, args) ==
    LET b    == BindNamed(cmd.QueryStr, cmd.Args)
        qStr == querys[Len(querys)] \o " " \o Replace1(b.qStr, "INSERT ", "")
    IN  [tmp |-> tmp, querys |-> SetLast(querys, qStr), args |-> args]

\* appendInsertData
appendInsertData(tmp, cmd, querys, args) ==
    LET b    == BindNamed(cmd.QueryStr, cmd.Args)
        qStr == querys[Len(querys)] \o " " \o Replace1(b.qStr, "INSERT ", "")
    IN  [tmp |-> tmp, querys |-> SetLast(querys, qStr), args |-> args \o b.arg]

\* processInsertData
processInsertData(tmp, cmd, querys, args) ==
    IF tmp # cmd.QueryStr
    THEN LET b == BindNamed(cmd.QueryStr, cmd.Args)
             newQueryStr == Replace1(b.qStr, "INSERT ", "INSERT ALL ")
         IN  [tmp |-> cmd.QueryStr, querys |-> Append(querys, newQueryStr),
              args |-> args \o b.arg]
    ELSE appendInsertData(tmp, cmd, querys, args)

\* a plausible slip: the first bound value of the command is appended, not
\* the last
appendUpdateDataFirstArg(tmp, cmd, querys, args) ==
    LET b    == BindNamed(cmd.QueryStr, cmd.Args)
        qStr == querys[Len(querys)] \o ";"
        new  == IF Index(qStr, ");") = 0
                THEN Replace1(qStr, " = :primary_val;", " IN (:primary_val, :primary_val)")
                ELSE Replace1(qStr, ");", ",:primary_val)")
    IN  [tmp |-> tmp, querys |-> SetLast(querys, new),
         args |-> Append(args, b.arg[1])]

\* appendUpdateData
appendUpdateData(tmp, cmd, querys, args) ==
    LET b    == BindNamed(cmd.QueryStr, cmd.Args)
        qStr == querys[Len(querys)] \o ";"
        new  == IF Index(qStr, ");") = 0
                THEN Replace1(qStr, " = :primary_val;", " IN (:primary_val, :primary_val)")
                ELSE Replace1(qStr, ");", ",:primary_val)")
    IN  [tmp |-> tmp, querys |-> SetLast(querys, new),
         args |-> Append(args, b.arg[Len(b.arg)])]

\* processUpdateData
processUpdateData(tmp, cmd, querys, args) ==
    IF tmp # cmd.QueryStr
    THEN LET b == BindNamed(cmd.QueryStr, cmd.Args)
         IN  [tmp |-> cmd.QueryStr, querys |-> Append(querys, b.qStr),
              args |-> args \o b.arg]
    ELSE appendUpdateData(tmp, cmd, querys, args)

\* appendDeleteData
appendDeleteData(tmp, cmd, querys, args) == appendUpdateData(tmp, cmd, querys, args)

\* processDeleteData
processDeleteData(tmp, cmd, querys, args) ==
    IF tmp # cmd.QueryStr
    THEN LET b == BindNamed(cmd.QueryStr, cmd.Args)
         IN  [tmp |-> cmd.QueryStr, querys |-> Append(querys, b.qStr),
              args |-> args \o b.arg]
    ELSE appendDeleteData(tmp, cmd, querys, args)

RECURSIVE MergeFrom(_, _, _)
\* the loop of processData over dbCommands, from 1-based index i on
MergeFrom(dbCommands, i, st) ==
    IF i > Len(dbCommands) THEN st
    ELSE LET cmd == dbCommands[i]
             nx  == CASE cmd.Record.Method = "INSERT" ->
                          LET r == processInsertData(st.tmp, cmd, st.querys, st.args)
                          IN  IF i = Len(dbCommands)
                              THEN [r EXCEPT !.querys = SetLast(r.querys,
                                       r.querys[Len(r.querys)] \o " SELECT * FROM DUAL")]
                              ELSE r
                      [] cmd.Record.Method = "UPDATE" ->
                          processUpdateData(st.tmp, cmd, st.querys, st.args)
                      [] cmd.Record.Method = "DELETE" ->
                          processDeleteData(st.tmp, cmd, st.querys, st.args)
                      [] OTHER -> st
         IN  MergeFrom(dbCommands, i + 1, nx)

\* one attempt of processData: tmpQueryStr is reset, the lists start empty;
\* queryStr is what writer.db.Exec receives
Attempt(dbCommands) ==
    LET st == MergeFrom(dbCommands, 1, [tmp |-> "", querys |-> <<>>, args |-> <<>>])
    IN  [queryStr |-> Join(st.querys, ";"), args |-> st.args, tmpQueryStr |-> st.tmp]

\* the references of a list of commands
Refs(cmds) == [i \in 1..Len(cmds) |-> cmds[i].Reference]

\* a plausible slip: the completion loop walks the group backwards
CompletionsReversed(dbCommands) ==
    [i \in 1..Len(dbCommands) |-> dbCommands[Len(dbCommands) + 1 - i].Reference]

\* the references passed to completionHandler after the retry loop, in call order
Completions(dbCommands) == [i \in 1..Len(dbCommands) |-> dbCommands[i].Reference]

RECURSIVE ScanStale(_, _, _, _)
\* a plausible slip: handleQueryStr is not set from the first request of the
\* chunk, so the loop starts from the value the chunk before left
ScanStale(chunk, i, dbCommands, handle) ==
    IF i > Len(chunk)
    THEN [call |-> Len(dbCommands) # 0, group |-> dbCommands,
          pos |-> Len(chunk) + 1, handle |-> handle]
    ELSE LET req == chunk[i]
         IN  IF req.QueryStr = handle
             THEN ScanStale(chunk, i + 1, Append(dbCommands, req), handle)
             ELSE [call |-> TRUE, group |-> dbCommands, pos |-> i,
                   handle |-> req.QueryStr]

RECURSIVE Scan(_, _, _, _)
\* the loop of chunkHandler from 1-based index i on, up to its next call of
\* processData: the group passed, the index of the request that caused the
\* call (Len(chunk) + 1 for the call after the loop) and handleQueryStr;
\* call is FALSE when the handler returns without another call
Scan(chunk, i, dbCommands, handle) ==
    IF i > Len(chunk)
    THEN [call |-> Len(dbCommands) # 0, group |-> dbCommands,
          pos |-> Len(chunk) + 1, handle |-> handle]
    ELSE LET req == chunk[i]
             h   == IF i = 1 THEN req.QueryStr ELSE handle
         IN  IF req.QueryStr = h
             THEN Scan(chunk, i + 1, Append(dbCommands, req), h)
             ELSE [call |-> TRUE, group |-> dbCommands, pos |-> i,
                   handle |-> req.QueryStr]

(***************************************************************************)
(* The records of the model.                                               *)
(***************************************************************************)
Row(id, name) == [ID |-> [int64 |-> id], NAME |-> [string |-> name]]

CustomerFields(id, b) == <<Field("ID", IntValue(id)), Field("NAME", StringValue(b))>>

\* inserts and updates keyed by ID: two templates, distinct keys and values
PipelineRecords ==
    { Rec("INSERT", "CUSTOMER", "ID", CustomerFields(3, 97)),
      Rec("INSERT", "CUSTOMER", "ID", CustomerFields(4, 98)),
      Rec("UPDATE", "CUSTOMER", "ID", CustomerFields(1, 98)),
      Rec("UPDATE", "CUSTOMER", "ID", CustomerFields(2, 99)) }

\* deletes keyed by ID, and records that declare no primary key
KeyRecords ==
    { Rec("DELETE", "CUSTOMER", "ID", CustomerFields(1, 97)),
      Rec("DELETE", "CUSTOMER", "ID", CustomerFields(2, 97)),
      Rec("UPDATE", "CUSTOMER", "ID", CustomerFields(2, 98)),
      Rec("UPDATE", "CUSTOMER", "", CustomerFields(1, 99)),
      Rec("DELETE", "CUSTOMER", "", CustomerFields(2, 97)) }

\* the records of the liveness model
LiveRecords ==
    { Rec("INSERT", "CUSTOMER", "ID", CustomerFields(3, 97)),
      Rec("UPDATE", "CUSTOMER", "ID", CustomerFields(1, 98)),
      Rec("UPDATE", "CUSTOMER", "", CustomerFields(1, 99)) }

\* the records of the batched-transaction model
BatchRecords ==
    { Rec("INSERT", "CUSTOMER", "ID", CustomerFields(3, 97)),
      Rec("UPDATE", "CUSTOMER", "ID", CustomerFields(1, 98)) }

\* the records of the compilation model: every method, every declared key
\* (none, a field of the record, no field of the record), two field orders,
\* and a record with two fields of the name of the key
Methods == {"INSERT", "UPDATE", "DELETE", "TRUNCATE"}
PrimaryKeys == {"", "ID", "NOPE"}
FieldLists ==
    { CustomerFields(1, 97),
      <<Field("NAME", StringValue(98)), Field("ID", IntValue(2))>>,
      <<Field("ID", IntValue(1)), Field("ID", IntValue(2))>> }
CompileRecords ==
    {Rec(m, "CUSTOMER", pk, fs) : m \in Methods, pk \in PrimaryKeys, fs \in FieldLists}

(***************************************************************************)
(* Execution of a statement by the database.                               *)
(***************************************************************************)
RECURSIVE InsertRows(_, _, _)
\* the rows of the INTO clauses, each taking its arguments by position
InsertRows(rows, args, tbl) ==
    IF Len(rows) = 0 THEN tbl
    ELSE LET cols == Head(rows).cols
             at(c) == CHOOSE k \in 1..Len(cols) : cols[k] = c /\
                          \A j \in 1..Len(cols) : cols[j] = c => j <= k
             row == [c \in Columns |->
                        IF c \in Range(cols) THEN args[at(c)] ELSE Null]
         IN  InsertRows(Tail(rows), SubSeq(args, Len(cols) + 1, Len(args)),
                        Append(tbl, row))

\* the table after the statement st, which takes its arguments by position
ApplyStmt(tbl, st, args) ==
    CASE st.kind = "insert" -> InsertRows(st.rows, args, tbl)
      [] st.kind = "update" ->
           LET keys == Range(SubSeq(args, Len(st.sets) + 1, Len(args)))
               at(c) == CHOOSE k \in 1..Len(st.sets) : st.sets[k] = c /\
                            \A j \in 1..Len(st.sets) : st.sets[j] = c => j <= k
           IN  [r \in 1..Len(tbl) |->
                  IF tbl[r][st.key] \in keys
                  THEN [c \in Columns |->
                          IF c \in Range(st.sets) THEN args[at(c)] ELSE tbl[r][c]]
                  ELSE tbl[r]]
      [] st.kind = "delete" ->
           SelectSeq(tbl, LAMBDA row : row[st.key] \notin Range(args))

\* writer.db.Exec(queryStr, args...) when the database is up: a statement the
\* database rejects is an error and changes nothing
Exec(tbl, queryStr, args) ==
    LET st == ParseStmt(queryStr)
    IN  IF st.ok /\ st.nbinds = Len(args)
        THEN [ok |-> TRUE, db |-> ApplyStmt(tbl, st, args)]
        ELSE [ok |-> FALSE, db |-> tbl]

(***************************************************************************)
(* The writer as a state machine.                                          *)
(***************************************************************************)
VARIABLES
    submitted,       \* per ProcessData call, in call order: record, error, enqueued
    commands,        \* writer.commands, the channel of compiled commands
    buffer,          \* the buffered input: the chunk being filled
    output,          \* the buffered input: full chunks waiting for the handler
    hpc,             \* chunkHandler: "idle", "exec" (in processData, about to
                     \* execute), "backoff" (in processData, after a failure)
    chunk,           \* chunkHandler: the chunk being handled
    pos,             \* chunkHandler: index of the request at the current call
    dbCommands,      \* processData: the group of commands it was called with
    handleQueryStr,  \* writer.handleQueryStr
    tmpQueryStr,     \* writer.tmpQueryStr
    db,              \* the rows of the table in the database
    completed,       \* the references passed to completionHandler, in order
    execLog,         \* the executions the database received, in order
    handed,          \* the chunks passed to chunkHandler, as reference lists
    fails,           \* number of failed executions so far
    workers,         \* the consumers of the batched-transaction variant
    cfg,             \* Init: database.service_name and database.sid
    ipc,             \* Init: "start", "open", "fmt1", "fmt2", "go", "done"
    initRet,         \* Init: "none" until it returns, then "nil" or "error"
    consumers,       \* number of run goroutines started
    session,         \* the session of the pooled connection of writer.db
    decodeIn,        \* GetValue: the value it is called with
    decodeOut        \* GetValue: what the call produced

vars == <<submitted, commands, buffer, output, hpc, chunk, pos, dbCommands,
          handleQueryStr, tmpQueryStr, db, completed, execLog, handed, fails,
          workers, cfg, ipc, initRet, consumers, session, decodeIn, decodeOut>>

initVars == <<cfg, ipc, initRet, consumers>>

decodeVars == <<decodeIn, decodeOut>>

\* a session of the database: whether it is open, and which of the two
\* ALTER SESSION statements of setTimeFormatOnSession were executed in it
NoSession == [open |-> FALSE, date |-> FALSE, ts |-> FALSE]

\* the connection writer.db executes on: calls are sequential, so the idle
\* connection of the pool is taken, and a new one is opened when there is none
Conn(s) == IF s.open THEN s ELSE [open |-> TRUE, date |-> FALSE, ts |-> FALSE]

\* GetValue was not called
NotDecoded == [none |-> TRUE]

\* the state of the variables of Init and GetValue when Init has returned nil
\* with one of the two names configured
Started ==
    /\ cfg = [service_name |-> "orcl", sid |-> ""]
    /\ ipc = "done"
    /\ initRet = "nil"
    /\ session = [open |-> TRUE, date |-> TRUE, ts |-> TRUE]
    /\ decodeIn = IntValue(0)
    /\ decodeOut = NotDecoded

\* capacity of writer.commands
CommandsCap == 204800

NoWorkers == [w \in {} |-> 0]

Init ==
    /\ submitted = <<>>
    /\ commands = <<>>
    /\ buffer = <<>>
    /\ output = <<>>
    /\ hpc = "idle"
    /\ chunk = <<>>
    /\ pos = 0
    /\ dbCommands = <<>>
    /\ handleQueryStr = ""
    /\ tmpQueryStr = ""
    /\ db = <<Row(1, "a"), Row(2, "a")>>
    /\ completed = <<>>
    /\ execLog = <<>>
    /\ handed = <<>>
    /\ fails = 0
    /\ workers = NoWorkers
    /\ consumers = 1
    /\ Started

applierVars == <<buffer, output, hpc, chunk, pos, dbCommands, handleQueryStr,
                 tmpQueryStr, completed, handed>>

\* ProcessData(reference, record): compiles the record and sends the command,
\* if any, on writer.commands; the reference is the number of the call
ProcessData(record) ==
    LET reference == Len(submitted) + 1
        res == ProcessDataResult(reference, record)
    IN  /\ Len(submitted) < MaxSubmit
        /\ Len(commands) + Len(res.cmds) <= CommandsCap
        /\ commands' = commands \o res.cmds
        /\ submitted' = Append(submitted,
               [Record |-> record, err |-> res.err, enqueued |-> Len(res.cmds)])
        /\ UNCHANGED <<initVars, decodeVars, session, applierVars, db,
                       execLog, fails, workers>>

\* run: receives a command and pushes it to the buffered input, which hands
\* the chunk on when it holds ChunkSize commands
Run ==
    /\ consumers >= 1
    /\ commands # <<>>
    /\ commands' = Tail(commands)
    /\ LET pushed == Append(buffer, Head(commands))
       IN  IF Len(pushed) >= ChunkSize
           THEN buffer' = <<>> /\ output' = Append(output, pushed)
           ELSE buffer' = pushed /\ output' = output
    /\ UNCHANGED <<initVars, decodeVars, session, submitted, hpc, chunk, pos,
                   dbCommands, handleQueryStr, tmpQueryStr, db, completed,
                   execLog, handed, fails, workers>>

\* a plausible slip: the timer hands the buffer on only when it is full
TimeoutWhenFull ==
    /\ Len(buffer) >= ChunkSize
    /\ output' = Append(output, buffer)
    /\ buffer' = <<>>
    /\ UNCHANGED <<initVars, decodeVars, session, submitted, commands, hpc,
                   chunk, pos, dbCommands, handleQueryStr, tmpQueryStr, db,
                   completed, execLog, handed, fails, workers>>

\* the buffered input's timeout: a partially filled chunk is handed on
Timeout ==
    /\ buffer # <<>>
    /\ output' = Append(output, buffer)
    /\ buffer' = <<>>
    /\ UNCHANGED <<initVars, decodeVars, session, submitted, commands, hpc,
                   chunk, pos, dbCommands, handleQueryStr, tmpQueryStr, db,
                   completed, execLog, handed, fails, workers>>

\* chunkHandler continues after position i with the group g: up to its next
\* call of processData, or to its return
Resume(ch, i, g, handle) ==
    LET sc == Scan(ch, i, g, handle)
    IN  /\ handleQueryStr' = sc.handle
        /\ IF sc.call
           THEN hpc' = "exec" /\ chunk' = ch /\ pos' = sc.pos /\ dbCommands' = sc.group
           ELSE hpc' = "idle" /\ chunk' = <<>> /\ pos' = 0 /\ dbCommands' = <<>>

\* chunkHandler is called with the next chunk, one chunk at a time
HandleChunk ==
    /\ hpc = "idle"
    /\ output # <<>>
    /\ output' = Tail(output)
    /\ handed' = Append(handed, Refs(Head(output)))
    /\ Resume(Head(output), 1, <<>>, handleQueryStr)
    /\ UNCHANGED <<initVars, decodeVars, session, submitted, commands, buffer,
                   tmpQueryStr, db, completed, execLog, fails, workers>>

\* an execution as the database sees it: the statement, its arguments, the
\* commands it stands for, the outcome, and the session it ran in
LogEntry(att, cmds, ok) ==
    [queryStr |-> att.queryStr, args |-> att.args, refs |-> Refs(cmds), ok |-> ok,
     nls |-> Conn(session)]

\* a plausible slip: querys and args are declared before the retry loop, so
\* the attempt that follows a failed one appends its statement and arguments
\* to those of the failed one
ExecFailWithAccumulating(acks) ==
    /\ hpc = "exec"
    /\ LET att    == Attempt(dbCommands)
           failed == execLog # <<>> /\ ~execLog[Len(execLog)].ok
           sent   == IF failed
                     THEN [queryStr |-> execLog[Len(execLog)].queryStr \o ";"
                                           \o att.queryStr,
                           args |-> execLog[Len(execLog)].args \o att.args]
                     ELSE [queryStr |-> att.queryStr, args |-> att.args]
       IN  /\ fails < MaxFail \/ ~Exec(db, sent.queryStr, sent.args).ok
           /\ tmpQueryStr' = att.tmpQueryStr
           /\ execLog' = Append(execLog, LogEntry(sent, dbCommands, FALSE))
    /\ fails' = fails + 1
    /\ hpc' = "backoff"
    /\ completed' = completed \o acks
    /\ session' = Conn(session)
    /\ UNCHANGED <<initVars, decodeVars, submitted, commands, buffer, output,
                   chunk, pos, dbCommands, handleQueryStr, db, handed, workers>>

\* processData: an attempt whose execution fails, after which acks are passed
\* to the completion handler
ExecFailWith(acks) ==
    /\ hpc = "exec"
    /\ LET att == Attempt(dbCommands)
       IN  /\ fails < MaxFail \/ ~Exec(db, att.queryStr, att.args).ok
           /\ tmpQueryStr' = att.tmpQueryStr
           /\ execLog' = Append(execLog, LogEntry(att, dbCommands, FALSE))
    /\ fails' = fails + 1
    /\ hpc' = "backoff"
    /\ completed' = completed \o acks
    /\ session' = Conn(session)
    /\ UNCHANGED <<initVars, decodeVars, submitted, commands, buffer, output,
                   chunk, pos, dbCommands, handleQueryStr, db, handed,
                   workers>>

\* a plausible slip: the error path falls through to the completion loop
ExecFailAcking == ExecFailWith(Completions(dbCommands))

\* a plausible slip: the retry loop gives up after a failure and sleeps for
\* good
ExecFailGivingUp ==
    /\ hpc = "exec"
    /\ LET att == Attempt(dbCommands)
       IN  /\ fails < MaxFail \/ ~Exec(db, att.queryStr, att.args).ok
           /\ tmpQueryStr' = att.tmpQueryStr
           /\ execLog' = Append(execLog, LogEntry(att, dbCommands, FALSE))
    /\ fails' = fails + 1
    /\ hpc' = "stopped"
    /\ session' = Conn(session)
    /\ UNCHANGED <<initVars, decodeVars, submitted, commands, buffer, output,
                   chunk, pos, dbCommands, handleQueryStr, db, completed,
                   handed, workers>>

\* processData: an attempt whose execution fails; the loop sleeps, then
\* retries, and no completion handler is called
ExecFail == ExecFailWith(<<>>)

\* a plausible slip: the retry resumes after the first command of the group
RetrySkipping ==
    /\ hpc = "backoff"
    /\ hpc' = "exec"
    /\ dbCommands' = IF Len(dbCommands) > 1 THEN Tail(dbCommands) ELSE dbCommands
    /\ completed' = IF Len(dbCommands) > 1
                    THEN Append(completed, Head(dbCommands).Reference)
                    ELSE completed
    /\ UNCHANGED <<initVars, decodeVars, session, submitted, commands, buffer,
                   output, chunk, pos, handleQueryStr, tmpQueryStr, db,
                   execLog, handed, fails, workers>>

\* a plausible slip: after the sleep the chunk is handled again from its
\* first command, not the failed group only
RetryRestartingChunk ==
    /\ hpc = "backoff"
    /\ Resume(chunk, 1, <<>>, handleQueryStr)
    /\ UNCHANGED <<initVars, decodeVars, session, submitted, commands, buffer,
                   output, tmpQueryStr, db, completed, execLog, handed, fails,
                   workers>>

\* processData: the sleep of 5 seconds ends and the loop continues
Retry ==
    /\ hpc = "backoff"
    /\ hpc' = "exec"
    /\ UNCHANGED <<initVars, decodeVars, session, submitted, commands, buffer,
                   output, chunk, pos, dbCommands, handleQueryStr,
                   tmpQueryStr, db, completed, execLog, handed, fails,
                   workers>>

\* a plausible slip: chunkHandler does not start a new list after the call
\* of processData, so the next group is appended to the one just executed
ExecOkKeepingGroup ==
    /\ hpc = "exec"
    /\ LET att == Attempt(dbCommands)
           res == Exec(db, att.queryStr, att.args)
       IN  /\ res.ok
           /\ tmpQueryStr' = att.tmpQueryStr
           /\ db' = res.db
           /\ execLog' = Append(execLog, LogEntry(att, dbCommands, TRUE))
    /\ completed' = completed \o Completions(dbCommands)
    /\ IF pos <= Len(chunk)
       THEN Resume(chunk, pos + 1, Append(dbCommands, chunk[pos]), handleQueryStr)
       ELSE /\ hpc' = "idle" /\ chunk' = <<>> /\ pos' = 0 /\ dbCommands' = <<>>
            /\ handleQueryStr' = handleQueryStr
    /\ session' = Conn(session)
    /\ UNCHANGED <<initVars, decodeVars, submitted, commands, buffer, output,
                   handed, fails, workers>>

\* processData: an attempt whose execution succeeds; the completion handler
\* is called for each command of the group, and chunkHandler goes on
ExecOk ==
    /\ hpc = "exec"
    /\ LET att == Attempt(dbCommands)
           res == Exec(db, att.queryStr, att.args)
       IN  /\ res.ok
           /\ tmpQueryStr' = att.tmpQueryStr
           /\ db' = res.db
           /\ execLog' = Append(execLog, LogEntry(att, dbCommands, TRUE))
    /\ completed' = completed \o Completions(dbCommands)
    /\ IF pos <= Len(chunk)
       THEN Resume(chunk, pos + 1, <<chunk[pos]>>, handleQueryStr)
       ELSE /\ hpc' = "idle" /\ chunk' = <<>> /\ pos' = 0 /\ dbCommands' = <<>>
            /\ handleQueryStr' = handleQueryStr
    /\ session' = Conn(session)
    /\ UNCHANGED <<initVars, decodeVars, submitted, commands, buffer, output,
                   handed, fails, workers>>

Applier == Run \/ Timeout \/ HandleChunk \/ ExecFail \/ Retry \/ ExecOk

\* the pipeline fed with inserts and updates
Next == (\E record \in PipelineRecords : ProcessData(record)) \/ Applier

Spec == Init /\ [][Next]_vars

\* the pipeline fed with deletes and with records without a primary key
NextKeys == (\E record \in KeyRecords : ProcessData(record)) \/ Applier

SpecKeys == Init /\ [][NextKeys]_vars

\* the pipeline under fair scheduling: the goroutine of run, the timer of the
\* buffered input, the chunk handler and the end of the sleep of processData
\* are never postponed forever.  Nothing is assumed of the database
NextLive == (\E record \in LiveRecords : ProcessData(record)) \/ Applier

FairSpec ==
    /\ Init /\ [][NextLive]_vars
    /\ WF_vars(Run) /\ WF_vars(Timeout) /\ WF_vars(HandleChunk) /\ WF_vars(Retry)

\* compilation alone: ProcessData on every shape of record
NextCompile == \E record \in CompileRecords : ProcessData(record)

SpecCompile == Init /\ [][NextCompile]_vars

(***************************************************************************)
(* The batched-transaction variant of the writer (writer.go, lines 1-373):  *)
(* Init starts five consumers of writer.commands; each executes the         *)
(* commands it receives in a transaction of its own, which it commits after *)
(* batchSize commands or when its timer fires.  Row locks between open      *)
(* transactions are not modelled.                                           *)
(***************************************************************************)
\* the number of goroutines Init starts
NumWorkers == 5

IdleWorker == [cmd |-> <<>>, batch |-> 0, tx |-> <<>>]

InitBatch ==
    /\ submitted = <<>>
    /\ commands = <<>>
    /\ buffer = <<>>
    /\ output = <<>>
    /\ hpc = "idle"
    /\ chunk = <<>>
    /\ pos = 0
    /\ dbCommands = <<>>
    /\ handleQueryStr = ""
    /\ tmpQueryStr = ""
    /\ db = <<Row(1, "a"), Row(2, "a")>>
    /\ completed = <<>>
    /\ execLog = <<>>
    /\ handed = <<>>
    /\ fails = 0
    /\ workers = [w \in 1..NumWorkers |-> IdleWorker]
    /\ consumers = NumWorkers
    /\ Started

\* tx.NamedExec(cmd.QueryStr, cmd.Args)
NamedExec(tbl, cmd) ==
    LET b == BindNamed(cmd.QueryStr, cmd.Args)
    IN  [queryStr |-> b.qStr, args |-> b.arg, res |-> Exec(tbl, b.qStr, b.arg)]

RECURSIVE Commit(_, _)
\* tx.Commit(): the statements of the transaction take effect, in order
Commit(tbl, tx) ==
    IF tx = <<>> THEN tbl
    ELSE Commit(Exec(tbl, Head(tx).queryStr, Head(tx).args).db, Tail(tx))

\* run, case cmd := <-writer.commands: the receive
WRecv(w) ==
    /\ commands # <<>>
    /\ workers[w].cmd = <<>>
    /\ commands' = Tail(commands)
    /\ workers' = [workers EXCEPT ![w].cmd = <<Head(commands)>>]
    /\ UNCHANGED <<initVars, decodeVars, session, submitted, applierVars, db,
                   execLog, fails>>

\* run, case cmd := <-writer.commands: the body after the receive.  An error
\* of NamedExec is logged and the loop goes on
WExec(w) ==
    /\ workers[w].cmd # <<>>
    /\ LET cmd   == workers[w].cmd[1]
           ex    == NamedExec(db, cmd)
           batch == workers[w].batch + 1
       IN  \E ok \in BOOLEAN :
             /\ ok => ex.res.ok
             /\ ~ok => (fails < MaxFail \/ ~ex.res.ok)
             /\ fails' = IF ok THEN fails ELSE fails + 1
             /\ execLog' = Append(execLog,
                    [queryStr |-> ex.queryStr, args |-> ex.args,
                     refs |-> <<cmd.Reference>>, ok |-> ok])
             /\ LET tx == IF ok
                          THEN Append(workers[w].tx,
                                   [queryStr |-> ex.queryStr, args |-> ex.args])
                          ELSE workers[w].tx
                IN  IF batch >= BatchSize
                    THEN /\ db' = Commit(db, tx)
                         /\ workers' = [workers EXCEPT ![w] = IdleWorker]
                    ELSE /\ db' = db
                         /\ workers' = [workers EXCEPT
                                ![w] = [cmd |-> <<>>, batch |-> batch, tx |-> tx]]
    /\ UNCHANGED <<initVars, decodeVars, session, submitted, commands,
                   applierVars>>

\* run, case <-timer.C
WTimer(w) ==
    /\ workers[w].cmd = <<>>
    /\ workers[w].batch > 0
    /\ db' = Commit(db, workers[w].tx)
    /\ workers' = [workers EXCEPT ![w] = IdleWorker]
    /\ UNCHANGED <<initVars, decodeVars, session, submitted, commands,
                   applierVars, execLog, fails>>

NextBatch ==
    \/ \E record \in BatchRecords : ProcessData(record)
    \/ \E w \in 1..NumWorkers : WRecv(w)
    \/ \E w \in 1..NumWorkers : WExec(w)
    \/ \E w \in 1..NumWorkers : WTimer(w)

SpecBatch == InitBatch /\ [][NextBatch]_vars

(***************************************************************************)
(* Properties.                                                             *)
(***************************************************************************)
\* the references of the commands of a successful execution
Applied == UNION {Range(execLog[i].refs) : i \in {j \in 1..Len(execLog) : execLog[j].ok}}

\* the references of the commands of a failed execution
Failed == UNION {Range(execLog[i].refs) : i \in {j \in 1..Len(execLog) : ~execLog[j].ok}}

\* the references of the commands processData is working on
Pending == IF hpc \in {"exec", "backoff"} THEN Range(Refs(dbCommands)) ELSE {}

IsPrefix(p, q) == Len(p) <= Len(q) /\ SubSeq(q, 1, Len(p)) = p

\* C1: a command is passed to the completion handler only after the execution
\* that contains it has succeeded: no acknowledged command is unapplied, and
\* none belongs to the group that is about to execute, failing or in backoff
C1_AckOnlyAfterSuccess ==
    \A k \in 1..Len(completed) :
        completed[k] \in Applied /\ completed[k] \notin Pending

\* C1 witness: a command was acknowledged whose execution had failed before
C1_Witness ==
    \E k \in 1..Len(completed) : completed[k] \in Failed /\ completed[k] \in Applied

\* C2: the references passed to the completion handler are those of the
\* chunks handed to chunkHandler, in order, each once: a prefix of them while
\* a chunk is handled, all of them whenever the handler has returned
C2_CompletionsEqualChunk ==
    /\ IsPrefix(completed, Flatten(handed))
    /\ hpc = "idle" => completed = Flatten(handed)

\* C2 witness: the handler has returned from a chunk of two commands with
\* different templates, one of whose executions had failed
C2_Witness ==
    /\ hpc = "idle"
    /\ Failed # {}
    /\ \E i \in 1..Len(handed) :
          /\ Len(handed[i]) >= 2
          /\ \E j \in 1..Len(execLog) :
                execLog[j].ok /\ execLog[j].refs = <<handed[i][1]>>

\* the references of the calls of ProcessData that enqueued a command
Enqueued == {r \in 1..Len(submitted) : submitted[r].enqueued > 0}

\* C3: commands take effect in the order they were enqueued: when the
\* statement of a command b is executed, every command a enqueued before b is
\* part of the same execution or of an earlier, successful one
C3_EnqueueOrder ==
    \A i \in 1..Len(execLog) : \A b \in Range(execLog[i].refs) :
        \A a \in Enqueued : a < b =>
            \/ a \in Range(execLog[i].refs)
            \/ \E j \in 1..(i - 1) : execLog[j].ok /\ a \in Range(execLog[j].refs)

LastFailed == execLog # <<>> /\ ~execLog[Len(execLog)].ok

InFlight ==
    Range(Refs(commands)) \cup Range(Refs(buffer)) \cup Range(Refs(chunk))
        \cup UNION {Range(Refs(output[i])) : i \in 1..Len(output)}

\* every call of writer.db.Exec returns: processData does not wait at the
\* execution forever.  The outage of the database is transient: at most
\* MaxFail executions fail for a reason other than the statement itself
ExecReturns == []<>(hpc # "exec")

\* C5: no enqueued command is given up: until it is acknowledged it stays in
\* the channel, the buffered input or the chunk in hand; and, the outage being
\* transient, every enqueued command is eventually passed to the completion
\* handler
C5_RetryForever ==
    /\ [](\A r \in Enqueued : r \in InFlight \/ r \in Range(completed))
    /\ ExecReturns =>
          \A r \in 1..MaxSubmit : (r \in Enqueued) ~> (r \in Range(completed))

\* C5 witness: every enqueued command is acknowledged, one of them after a
\* failed execution, and the chunk in question was handed on by the timer
C5_Witness ==
    /\ Cardinality(Enqueued) >= 1
    /\ Enqueued = Range(completed)
    /\ InFlight = {}
    /\ \E r \in Enqueued : r \in Failed
    /\ \E h \in 1..Len(handed) : Len(handed[h]) < ChunkSize

RECURSIVE OneByOne(_, _)
\* the table after the statement of each command, with the command's own
\* arguments, is executed on its own, in the order of the list
OneByOne(tbl, cmds) ==
    IF cmds = <<>> THEN tbl
    ELSE OneByOne(NamedExec(tbl, Head(cmds)).res.db, Tail(cmds))

\* C6: merging does not change the outcome: a successful execution of the
\* merged statement of a group leaves the table in the state reached by
\* executing the commands of the group one by one (the groups of a chunk are
\* executed one after the other, so the same then holds of the chunk)
C6_MergeKeepsOutcome ==
    [][ (Len(execLog') > Len(execLog) /\ execLog'[Len(execLog')].ok) =>
            db' = OneByOne(db, dbCommands) ]_vars

\* the names of the fields of a record
FieldNames(record) == {record.Fields[i].Name : i \in 1..Len(record.Fields)}

\* C7: for every Insert, Update or Delete record that declares a non-empty
\* primary key matching none of its fields, ProcessData returns the
\* missing-primary-key error and enqueues no command
C7_MissingPrimaryKey ==
    \A r \in 1..Len(submitted) :
        LET record == submitted[r].Record
        IN  (/\ record.Method \in {"INSERT", "UPDATE", "DELETE"}
             /\ record.PrimaryKey # ""
             /\ record.PrimaryKey \notin FieldNames(record))
            => (submitted[r].err = ErrNotFoundPrimaryKey /\ submitted[r].enqueued = 0)

\* the references of the commands of the executions the database received
Executed == UNION {Range(execLog[i].refs) : i \in 1..Len(execLog)}

\* the calls of ProcessData with a record of method m that declares no
\* primary key
Keyless(m) ==
    {r \in 1..Len(submitted) :
        submitted[r].Record.Method = m /\ submitted[r].Record.PrimaryKey = ""}

\* C8: for an Update record that declares no primary key, ProcessData
\* returns success and enqueues no command, no statement is executed for it
\* and the completion handler is never called with its reference
C8_KeylessUpdate ==
    \A r \in Keyless("UPDATE") :
        /\ submitted[r].err = ""
        /\ submitted[r].enqueued = 0
        /\ r \notin InFlight
        /\ r \notin Executed
        /\ r \notin Range(completed)

\* C8 witness: an Update without a primary key was submitted, and a command
\* submitted after it has been executed and acknowledged
C8_Witness ==
    \E r \in Keyless("UPDATE") : \E q \in Range(completed) :
        q > r /\ q \in Applied

\* C9: for a Delete record with an empty primary-key name, ProcessData
\* returns success and changes nothing but the count of calls: the channel,
\* the buffered input, the handler, the database and the acknowledgements are
\* as before; its reference never reaches the handler, an execution or the
\* completion handler
C9_KeylessDelete ==
    /\ [](\A r \in Keyless("DELETE") :
              /\ submitted[r].err = ""
              /\ r \notin InFlight
              /\ r \notin Executed
              /\ r \notin Range(completed))
    /\ [][ (/\ Len(submitted') = Len(submitted) + 1
            /\ Len(submitted') \in Keyless("DELETE")')
           => UNCHANGED <<commands, applierVars, db, execLog, fails>> ]_vars

\* C9 witness: a Delete without a primary key was submitted between two
\* commands that went through the handler in one chunk and were acknowledged
C9_Witness ==
    \E r \in Keyless("DELETE") : \E h \in 1..Len(handed) :
        /\ handed[h] = <<r - 1, r + 1>>
        /\ {r - 1, r + 1} \subseteq Range(completed)

\* the command ProcessData compiled for the call with reference r
CommandOf(r) == ProcessDataResult(r, submitted[r].Record).cmds[1]

\* the bound values of the commands with the references refs, in order
BoundValues(refs) ==
    Flatten([i \in 1..Len(refs) |->
                BindNamed(CommandOf(refs[i]).QueryStr, CommandOf(refs[i]).Args).arg])

\* the number of completion calls made before the execution j of the log
AckedBefore(j) ==
    Len(Flatten([i \in 1..(j - 1) |->
                    IF execLog[i].ok THEN execLog[i].refs ELSE <<>>]))

\* C10: every attempt for a group of k >= 2 Insert commands sends one
\* statement: one INSERT ALL with k INTO clauses, ended once by
\* SELECT * FROM DUAL, whose arguments are the bound values of the k commands
\* in order; a successful attempt is followed by exactly the k completion
\* calls of the group, in order, and they are the only ones for its commands
C10_MultiRowInsert ==
    \A j \in 1..Len(execLog) :
        LET e == execLog[j]
            k == Len(e.refs)
            p == AckedBefore(j)
        IN  (k >= 2 /\ submitted[e.refs[1]].Record.Method = "INSERT") =>
               /\ HasPrefix(e.queryStr, "INSERT ALL INTO ")
               /\ Count(e.queryStr, "INSERT ") = 1
               /\ Count(e.queryStr, "INTO ") = k
               /\ Count(e.queryStr, "VALUES ") = k
               /\ Count(e.queryStr, "SELECT * FROM DUAL") = 1
               /\ HasSuffix(e.queryStr, ") SELECT * FROM DUAL")
               /\ Count(e.queryStr, ";") = 0
               /\ e.args = BoundValues(e.refs)
               /\ e.ok =>
                     /\ Len(completed) >= p + k
                     /\ SubSeq(completed, p + 1, p + k) = e.refs
                     /\ \A i \in 1..Len(completed) :
                           completed[i] \in Range(e.refs) => i \in (p + 1)..(p + k)

\* C10 witness: a statement for two Inserts with different values has been
\* executed with success, and both were acknowledged
C10_Witness ==
    \E j \in 1..Len(execLog) :
        /\ execLog[j].ok
        /\ Len(execLog[j].refs) = 2
        /\ submitted[execLog[j].refs[1]].Record.Method = "INSERT"
        /\ submitted[execLog[j].refs[1]].Record # submitted[execLog[j].refs[2]].Record
        /\ Range(execLog[j].refs) \subseteq Range(completed)

(***************************************************************************)
(* C11, C12: the statement texts of insert and update.                     *)
(***************************************************************************)
Quoted(name) == "\"" \o name \o "\""

RECURSIVE NonKeyFrom(_, _)
\* the indices (from 0, as the code counts them) of the fields of the record
\* that are not named by its primary key, in field order, from index n on
NonKeyFrom(record, n) ==
    IF n >= Len(record.Fields) THEN <<>>
    ELSE (IF record.Fields[n + 1].Name = record.PrimaryKey THEN <<>> ELSE <<n>>)
         \o NonKeyFrom(record, n + 1)

NonKey(record) == NonKeyFrom(record, 0)

HasKeyField(record) ==
    \E i \in 1..Len(record.Fields) : record.Fields[i].Name = record.PrimaryKey

\* the insert statement with the table and every column double-quoted, the
\* key column first, the other columns in field order bound to val_<n>
QuotedInsert(record) ==
    LET nk   == NonKey(record)
        cols == (IF HasKeyField(record) THEN <<Quoted(record.PrimaryKey)>> ELSE <<>>)
                \o [i \in 1..Len(nk) |-> Quoted(record.Fields[nk[i] + 1].Name)]
        vals == (IF HasKeyField(record) THEN <<":primary_val">> ELSE <<>>)
                \o [i \in 1..Len(nk) |-> ":val_" \o Itoa(nk[i])]
    IN  "INSERT INTO " \o Quoted(record.Table) \o " (" \o Join(cols, ",")
            \o ") VALUES (" \o Join(vals, ",") \o ")"

\* the commands waiting on writer.commands that were compiled from records
\* of the method
Compiled(method) ==
    {i \in 1..Len(commands) : commands[i].Record.Method = method}

\* C11: every command compiled from an Insert record carries the insert
\* statement in which the table identifier and every column identifier are
\* double-quoted, the key column with :primary_val comes first and the other
\* columns follow in field order with their val_<n> bindings; for CUSTOMER
\* with the fields ID (primary key) and NAME it is
\* INSERT INTO "CUSTOMER" ("ID","NAME") VALUES (:primary_val,:val_1), bound
\* to primary_val and val_1
C11_InsertTemplate ==
    \A i \in Compiled("INSERT") :
        /\ commands[i].QueryStr = QuotedInsert(commands[i].Record)
        /\ (commands[i].Record = Rec("INSERT", "CUSTOMER", "ID", CustomerFields(1, 97))
            => /\ commands[i].QueryStr =
                  "INSERT INTO \"CUSTOMER\" (\"ID\",\"NAME\") VALUES (:primary_val,:val_1)"
               /\ DOMAIN commands[i].Args = {"primary_val", "val_1"})

\* the update statement for the record with the table written as given: the
\* SET columns double-quoted and in field order, the key column bare in the
\* WHERE clause
UpdateShape(record, table) ==
    LET nk   == NonKey(record)
        sets == [i \in 1..Len(nk) |->
                   Quoted(record.Fields[nk[i] + 1].Name) \o " = :val_" \o Itoa(nk[i])]
    IN  "UPDATE " \o table \o " SET " \o Join(sets, ",")
            \o " WHERE " \o record.PrimaryKey \o " = :primary_val"

\* C12: every command compiled from an Update record carries
\* UPDATE <table> SET <col> = :<binding>,... WHERE <key> = :primary_val with
\* the SET columns in field order; for CUSTOMER with the primary key ID and
\* the field NAME at index 1 it is exactly
\* UPDATE "CUSTOMER" SET "NAME" = :val_1 WHERE ID = :primary_val
C12_UpdateTemplate ==
    \A i \in Compiled("UPDATE") :
        /\ commands[i].QueryStr \in
               {UpdateShape(commands[i].Record, commands[i].Record.Table),
                UpdateShape(commands[i].Record, Quoted(commands[i].Record.Table))}
        /\ (commands[i].Record = Rec("UPDATE", "CUSTOMER", "ID", CustomerFields(1, 97))
            => commands[i].QueryStr =
                  "UPDATE \"CUSTOMER\" SET \"NAME\" = :val_1 WHERE ID = :primary_val")

(***************************************************************************)
(* C13: the record definition of GetDefinition.                            *)
(***************************************************************************)
\* the submitted records GetDefinition produced a definition for
Defined ==
    {r \in 1..Len(submitted) :
        /\ submitted[r].Record.Method \in {"INSERT", "UPDATE"}
        /\ GetDefinition(submitted[r].Record).err = ""}

\* C13: in every record definition produced by GetDefinition, the field at
\* index n that is not the key is bound under val_<n>, the key field is bound
\* under primary_val, ColumnDefs lists the other fields in field order, and
\* the binding names are pairwise distinct: Values holds exactly one entry
\* per field of the record
C13_BindingNames ==
    \A r \in Defined :
        LET record == submitted[r].Record
            def    == GetDefinition(record).def
            nk     == NonKey(record)
        IN  /\ \A n \in 0..(Len(record.Fields) - 1) :
                 LET field == record.Fields[n + 1]
                     name  == IF field.Name = record.PrimaryKey
                              THEN "primary_val" ELSE "val_" \o Itoa(n)
                 IN  /\ name \in DOMAIN def.Values
                     /\ def.Values[name] = GetValue(field.Value)
            /\ Len(def.ColumnDefs) = Len(nk)
            /\ \A i \in 1..Len(nk) :
                 /\ def.ColumnDefs[i].ColumnName = record.Fields[nk[i] + 1].Name
                 /\ def.ColumnDefs[i].BindingName = "val_" \o Itoa(nk[i])
            /\ Cardinality(DOMAIN def.Values) = Len(record.Fields)

(***************************************************************************)
(* C14: compilation is deterministic.                                      *)
(***************************************************************************)
\* the commands the writer holds, oldest first: those of the chunk being
\* handled, of the chunks waiting for the handler, of the buffer, and of
\* writer.commands
Pipeline == chunk \o Flatten(output) \o buffer \o commands

InList(k) ==
    " IN (:primary_val, :primary_val"
        \o Join([i \in 1..(k - 1) |-> ""], ",:primary_val") \o ")"

\* the values the commands bind to their keys, in the order of the commands
KeyValues(refs) == [i \in 1..Len(refs) |-> CommandOf(refs[i]).Args["primary_val"]]

\* C20: every attempt for a group of k >= 2 Update or Delete commands sends
\* one statement: the text of the first command with its trailing
\* " = :primary_val" replaced by an IN list of exactly k key placeholders,
\* whose arguments end with the key values of the k commands in chunk order
C20_InList ==
    \A j \in 1..Len(execLog) :
        LET e  == execLog[j]
            k  == Len(e.refs)
            c1 == CommandOf(e.refs[1])
            q1 == BindNamed(c1.QueryStr, c1.Args).qStr
            n  == Len(e.args)
        IN  (k >= 2 /\ c1.Record.Method \in {"UPDATE", "DELETE"}) =>
               /\ HasSuffix(q1, " = :primary_val")
               /\ e.queryStr = SubSeq(q1, 1, Len(q1) - Len(" = :primary_val")) \o InList(k)
               /\ Count(e.queryStr, ":primary_val") = k
               /\ Count(e.queryStr, "= :primary_val") = 0
               /\ Count(e.queryStr, ";") = 0
               /\ n >= k
               /\ SubSeq(e.args, n - k + 1, n) = KeyValues(e.refs)

\* C20 witness: one statement for two Deletes of different keys has been
\* executed with success
C20_Witness ==
    \E j \in 1..Len(execLog) :
        LET e == execLog[j]
        IN  /\ e.ok
            /\ Len(e.refs) >= 2
            /\ submitted[e.refs[1]].Record.Method = "DELETE"
            /\ KeyValues(e.refs)[1] # KeyValues(e.refs)[2]

(***************************************************************************)
(* C15: retrying is idempotent.                                            *)
(***************************************************************************)
\* the table before the first statement
InitialTable == <<Row(1, "a"), Row(2, "a")>>

RECURSIVE GroupsFrom(_, _, _, _)
\* the groups chunkHandler passes to processData for the chunk, from
\* position i on with the group g collected so far
GroupsFrom(ch, i, g, handle) ==
    LET sc == Scan(ch, i, g, handle)
    IN  IF ~sc.call THEN <<>>
        ELSE <<sc.group>> \o
             (IF sc.pos <= Len(ch)
              THEN GroupsFrom(ch, sc.pos + 1, <<ch[sc.pos]>>, sc.handle)
              ELSE <<>>)

RECURSIVE NoFailureFrom(_, _)
\* the table and the completion calls after the groups, when every group is
\* executed once and no execution fails
NoFailureFrom(st, groups) ==
    IF groups = <<>> THEN st
    ELSE LET att == Attempt(Head(groups))
         IN  NoFailureFrom([db |-> Exec(st.db, att.queryStr, att.args).db,
                            completed |-> st.completed \o Completions(Head(groups))],
                           Tail(groups))

\* the run without failures over the chunks handed to chunkHandler so far
NoFailure ==
    NoFailureFrom([db |-> InitialTable, completed |-> <<>>],
        Flatten([c \in 1..Len(handed) |->
                    GroupsFrom([i \in 1..Len(handed[c]) |-> CommandOf(handed[c][i])],
                               1, <<>>, "")]))

\* C15: however many attempts failed, the attempt that follows a failed one
\* sends the same statement with the same arguments for the same commands,
\* and when chunkHandler has returned the table and the sequence of
\* completion calls are those of the run in which no execution fails
C15_RetryIdempotent ==
    /\ \A j \in 2..Len(execLog) :
          ~execLog[j - 1].ok =>
             /\ execLog[j].refs = execLog[j - 1].refs
             /\ execLog[j].queryStr = execLog[j - 1].queryStr
             /\ execLog[j].args = execLog[j - 1].args
    /\ hpc = "idle" =>
          /\ db = NoFailure.db
          /\ completed = NoFailure.completed

\* C15 witness: chunkHandler has returned from a chunk of which the
\* execution of a merged statement failed before it succeeded, and the
\* table has changed
C15_Witness ==
    /\ hpc = "idle"
    /\ db # InitialTable
    /\ \E j \in 2..Len(execLog) :
          /\ ~execLog[j - 1].ok
          /\ execLog[j].ok
          /\ Len(execLog[j].refs) >= 2

(***************************************************************************)
(* C16: one consumer, one execution at a time.                             *)
(***************************************************************************)
\* the consumers of the batched-transaction variant that hold a received
\* command or a transaction with statements not yet committed
Busy == {w \in DOMAIN workers : workers[w].cmd # <<>> \/ workers[w].batch > 0}

\* C16: at most one execution of received commands is in progress at any
\* time, and exactly one consumer drains the command queue
C16_SingleApplier ==
    /\ Cardinality(Busy) <= 1
    /\ consumers = 1

(***************************************************************************)
(* Init, step by step, and the sessions of the connection pool.            *)
(***************************************************************************)
\* the values of database.service_name and of database.sid
ServiceNames == {"", "orcl"}
Sids == {"", "xe"}

\* the records of the model of Init
InitRecords ==
    { Rec("INSERT", "CUSTOMER", "ID", CustomerFields(3, 97)),
      Rec("UPDATE", "CUSTOMER", "ID", CustomerFields(1, 98)) }

\* the writer after NewWriter, before Init: no connection, no consumer
InitBoot ==
    /\ submitted = <<>>
    /\ commands = <<>>
    /\ buffer = <<>>
    /\ output = <<>>
    /\ hpc = "idle"
    /\ chunk = <<>>
    /\ pos = 0
    /\ dbCommands = <<>>
    /\ handleQueryStr = ""
    /\ tmpQueryStr = ""
    /\ db = <<Row(1, "a"), Row(2, "a")>>
    /\ completed = <<>>
    /\ execLog = <<>>
    /\ handed = <<>>
    /\ fails = 0
    /\ workers = NoWorkers
    /\ cfg \in [service_name : ServiceNames, sid : Sids]
    /\ ipc = "start"
    /\ initRet = "none"
    /\ consumers = 0
    /\ session = NoSession
    /\ decodeIn = IntValue(0)
    /\ decodeOut = NotDecoded

writerVars == <<submitted, commands, applierVars, db, execLog, fails, workers>>

\* Init: the check of service_name and sid; when both are set the error is
\* logged and nil is returned
InitCheck ==
    /\ ipc = "start"
    /\ IF cfg.service_name # "" /\ cfg.sid # ""
       THEN ipc' = "done" /\ initRet' = "nil"
       ELSE ipc' = "open" /\ initRet' = initRet
    /\ UNCHANGED <<cfg, consumers, session, decodeVars, writerVars>>

\* Init: sqlx.Open, which validates its arguments without connecting; an
\* error is returned to the caller
InitOpen ==
    /\ ipc = "open"
    /\ \E ok \in BOOLEAN :
         IF ok THEN ipc' = "fmt1" /\ initRet' = initRet
               ELSE ipc' = "done" /\ initRet' = "error"
    /\ UNCHANGED <<cfg, consumers, session, decodeVars, writerVars>>

\* setTimeFormatOnSession: ALTER SESSION SET NLS_DATE_FORMAT on a connection
\* of the pool; an error (of connecting, or of the statement) is returned by
\* Init
InitDateFormat ==
    /\ ipc = "fmt1"
    /\ \/ /\ session' = [Conn(session) EXCEPT !.date = TRUE]
          /\ ipc' = "fmt2" /\ initRet' = initRet
       \/ /\ session' \in {session, Conn(session)}
          /\ ipc' = "done" /\ initRet' = "error"
    /\ UNCHANGED <<cfg, consumers, decodeVars, writerVars>>

\* setTimeFormatOnSession: ALTER SESSION SET NLS_TIMESTAMP_FORMAT, then
\* go writer.run() and return nil; an error is returned by Init
InitTimestampFormat ==
    /\ ipc = "fmt2"
    /\ \/ /\ session' = [Conn(session) EXCEPT !.ts = TRUE]
          /\ ipc' = "done" /\ initRet' = "nil" /\ consumers' = consumers + 1
       \/ /\ session' \in {session, Conn(session)}
          /\ ipc' = "done" /\ initRet' = "error" /\ consumers' = consumers
    /\ UNCHANGED <<cfg, decodeVars, writerVars>>

\* the connection of the pool is closed by the database or the network; the
\* pool opens a new one for the next statement
ConnLost ==
    /\ session.open
    /\ session' = NoSession
    /\ UNCHANGED <<initVars, decodeVars, writerVars>>

\* Init, then the calls of ProcessData by the caller told that Init succeeded
NextInit ==
    \/ InitCheck
    \/ InitOpen
    \/ InitDateFormat
    \/ InitTimestampFormat
    \/ ConnLost
    \/ (initRet = "nil" /\ \E record \in InitRecords : ProcessData(record))
    \/ Applier

SpecInit == InitBoot /\ [][NextInit]_vars

\* C17: when both the service name and the sid are configured, Init opens no
\* connection, starts no consumer, and does not return nil
C17_BothNamesRejected ==
    (cfg.service_name # "" /\ cfg.sid # "" /\ ipc = "done") =>
        /\ session = NoSession
        /\ consumers = 0
        /\ initRet # "nil"

\* C18: every statement of the applier is executed in a session in which
\* both ALTER SESSION statements were executed with success, and when Init
\* returns an error no consumer was started
C18_SessionFormats ==
    /\ \A j \in 1..Len(execLog) : execLog[j].nls.date /\ execLog[j].nls.ts
    /\ (ipc = "done" /\ initRet = "error") => consumers = 0

(***************************************************************************)
(* GetValue on every tag and payload.                                      *)
(***************************************************************************)
\* the tags GetValue has a case for, and two it has none for
KnownTypes == {"FLOAT64", "INT64", "UINT64", "BOOLEAN", "STRING"}
DataTypes == KnownTypes \cup {"BINARY", "TIME"}

\* the bytes of the payloads
PayloadBytes == {0, 1, 97}

\* the payloads: every sequence of at most MaxShort bytes, the empty one
\* included, and payloads of 8 bytes
Payloads ==
    UNION {[1..n -> PayloadBytes] : n \in 0..MaxShort} \cup {LE64(n) : n \in {0, 1, 97}}

\* the writer after Init, and a value GetValue is about to be called with
InitDecode ==
    /\ submitted = <<>>
    /\ commands = <<>>
    /\ buffer = <<>>
    /\ output = <<>>
    /\ hpc = "idle"
    /\ chunk = <<>>
    /\ pos = 0
    /\ dbCommands = <<>>
    /\ handleQueryStr = ""
    /\ tmpQueryStr = ""
    /\ db = <<Row(1, "a"), Row(2, "a")>>
    /\ completed = <<>>
    /\ execLog = <<>>
    /\ handed = <<>>
    /\ fails = 0
    /\ workers = NoWorkers
    /\ cfg = [service_name |-> "orcl", sid |-> ""]
    /\ ipc = "done"
    /\ initRet = "nil"
    /\ consumers = 1
    /\ session = [open |-> TRUE, date |-> TRUE, ts |-> TRUE]
    /\ decodeIn \in [Type : DataTypes, Value : Payloads]
    /\ decodeOut = NotDecoded

\* the call of GetValue
Decode ==
    /\ decodeOut = NotDecoded
    /\ decodeOut' = GetValue(decodeIn)
    /\ UNCHANGED <<decodeIn, initVars, session, writerVars>>

NextDecode == Decode

SpecDecode == InitDecode /\ [][NextDecode]_vars

\* C19: GetValue returns a value for every tag and every payload, payloads
\* of fewer than 8 bytes and the empty payload included, and for a tag it
\* has no case for it returns the bytes of the payload unchanged
C19_DecodeTotal ==
    decodeOut # NotDecoded =>
        /\ "panic" \notin DOMAIN decodeOut
        /\ decodeIn.Type \notin KnownTypes => decodeOut = [bytes |-> decodeIn.Value]

(***************************************************************************)
(* C21: the merge state is rebuilt by every attempt.                       *)
(***************************************************************************)
\* the commands of an execution of the log
GroupOf(e) == [i \in 1..Len(e.refs) |-> CommandOf(e.refs[i])]

Flushed == Range(Refs(Flatten(output))) \cup Range(Flatten(handed))

\* C22: every command that waits in the buffer, in a chunk that is not full,
\* is eventually handed on in a chunk, whether or not another command
\* arrives
C22_TimeTrigger ==
    \A r \in 1..MaxSubmit : (r \in Range(Refs(buffer))) ~> (r \in Flushed)

\* C22 witness: chunkHandler was called with a chunk of fewer than ChunkSize
\* commands, and no command was submitted after those of the chunk
C22_Witness ==
    /\ handed # <<>>
    /\ Len(handed[Len(handed)]) < ChunkSize
    /\ handed[Len(handed)][Len(handed[Len(handed)])] = Len(submitted)
    /\ commands = <<>> /\ buffer = <<>>

(***************************************************************************)
(* C23: chunkHandler partitions the chunk into maximal runs.               *)
(***************************************************************************)
\* the groups processData was called with, in call order: the executions of
\* the log without the retries of the group before
Calls ==
    LET first == {j \in 1..Len(execLog) :
                     j = 1 \/ execLog[j - 1].ok \/ execLog[j - 1].refs # execLog[j].refs}
        nth(n) == CHOOSE j \in first : Cardinality({k \in first : k <= j}) = n
    IN  [n \in 1..Cardinality(first) |-> execLog[nth(n)].refs]

\* the chunk a command was handed to chunkHandler in
ChunkOf(r) == CHOOSE h \in 1..Len(handed) : r \in Range(handed[h])

\* the template of an enqueued command
TemplateOf(r) == CommandOf(r).QueryStr

\* C23: the groups passed to processData, concatenated in call order, are
\* the chunks handed to chunkHandler (all of them when it has returned);
\* every group is a non-empty run of commands of one chunk that share one
\* template, and two adjacent groups of a chunk have different templates
C23_MaximalRuns ==
    /\ IsPrefix(Flatten(Calls), Flatten(handed))
    /\ hpc = "idle" => Flatten(Calls) = Flatten(handed)
    /\ \A g \in 1..Len(Calls) :
          /\ Calls[g] # <<>>
          /\ \A i \in 1..Len(Calls[g]) :
                /\ TemplateOf(Calls[g][i]) = TemplateOf(Calls[g][1])
                /\ ChunkOf(Calls[g][i]) = ChunkOf(Calls[g][1])
    /\ \A g \in 1..(Len(Calls) - 1) :
          ChunkOf(Calls[g][1]) = ChunkOf(Calls[g + 1][1])
             => TemplateOf(Calls[g][1]) # TemplateOf(Calls[g + 1][1])

\* C23 witness: chunkHandler has returned from a chunk of two groups and
\* then from a chunk whose group has the template of the group before it
C23_Witness ==
    /\ hpc = "idle"
    /\ \E g \in 1..(Len(Calls) - 2) : \E h \in 1..Len(handed) :
          /\ handed[h] = Calls[g] \o Calls[g + 1]
          /\ TemplateOf(Calls[g + 1][1]) = TemplateOf(Calls[g + 2][1])

(***************************************************************************)
(* C24: an acknowledged command is not executed again.                     *)
(***************************************************************************)
\* the commands passed to the completion handler before the execution j of
\* the log
AckedCommandsBefore(j) == Range(SubSeq(completed, 1, AckedBefore(j)))

\* C24: no execution, first attempt or retry, of any group of any chunk
\* carries a command that was passed to the completion handler before it
C24_NoReplayAfterAck ==
    \A j \in 1..Len(execLog) :
        /\ AckedBefore(j) <= Len(completed)
        /\ Range(execLog[j].refs) \cap AckedCommandsBefore(j) = {}

\* C24 witness: a group was executed and acknowledged, then a later group
\* failed and was executed again, and only the commands of the later group
\* were sent
C24_Witness ==
    \E j \in 3..Len(execLog) :
        /\ execLog[j - 2].ok /\ ~execLog[j - 1].ok /\ execLog[j].ok
        /\ execLog[j - 1].refs = execLog[j].refs
        /\ Range(execLog[j - 2].refs) \subseteq AckedCommandsBefore(j - 1)
        /\ Range(execLog[j - 2].refs) \cap Range(execLog[j].refs) = {}

(***************************************************************************)
(* C25: the commands one call of ProcessData enqueues.                     *)
(***************************************************************************)
\* the positions on writer.commands of the commands of the call r
EnqueuedBy(r) == {i \in 1..Len(commands) : commands[i].Reference = r}

\* the first field of the record that carries the name of its key
FirstKeyField(record) ==
    record.Fields[CHOOSE i \in 1..Len(record.Fields) :
                    /\ record.Fields[i].Name = record.PrimaryKey
                    /\ \A j \in 1..(i - 1) : record.Fields[j].Name # record.PrimaryKey]

\* C25: every call of ProcessData enqueues at most one command: exactly one
\* for an Insert or an Update whose declared key is the name of a field, for
\* an Insert that declares no key, and for a Delete whose declared key is
\* the name of a field, bound to the value of the first such field; none for
\* a record of another method; and none when it returns an error
C25_OneCommandPerCall ==
    \A r \in 1..Len(submitted) :
        LET record == submitted[r].Record
            n      == Cardinality(EnqueuedBy(r))
            keyed  == record.PrimaryKey # "" /\ record.PrimaryKey \in FieldNames(record)
        IN  /\ n <= 1
            /\ n = submitted[r].enqueued
            /\ (record.Method \in {"INSERT", "UPDATE"} /\ keyed) => n = 1
            /\ (record.Method = "INSERT" /\ record.PrimaryKey = "") => n = 1
            /\ (record.Method = "DELETE" /\ keyed) =>
                  /\ n = 1
                  /\ \A i \in EnqueuedBy(r) :
                        commands[i].Args["primary_val"]
                            = GetValue(FirstKeyField(record).Value)
            /\ record.Method \notin {"INSERT", "UPDATE", "DELETE"} => n = 0
            /\ submitted[r].err # "" => n = 0

\* C25 witness: a Delete with two fields of the name of its key has enqueued
\* its one command, a record of another method has enqueued none, and a call
\* has returned an error
C25_Witness ==
    /\ \E r \in 1..Len(submitted) :
          /\ submitted[r].Record.Method = "DELETE"
          /\ Len(submitted[r].Record.Fields) = 2
          /\ \A i \in 1..2 :
                submitted[r].Record.Fields[i].Name = submitted[r].Record.PrimaryKey
          /\ Cardinality(EnqueuedBy(r)) = 1
    /\ \E r \in 1..Len(submitted) :
          submitted[r].Record.Method = "TRUNCATE" /\ EnqueuedBy(r) = {}
    /\ \E r \in 1..Len(submitted) : submitted[r].err # ""

====
